---- MODULE Spec2Model ----
(***************************************************************************)
(* Log-driven resource tracker of src/Ougi/wakfu_ougi_resource_tracker.py. *)
(*                                                                         *)
(* The state is the set of fields of WakfuOugiResourceTracker that         *)
(* parse_log_line and update_animations read or write.  A log line is a    *)
(* record of the textual features the handler's substring tests and        *)
(* regular expressions look at; every test of the source is one predicate  *)
(* over that record.                                                       *)
(***************************************************************************)
EXTENDS Integers, Sequences, FiniteSets, TLC

(***************************************************************************)
(* Bounds of the model.                                                    *)
(***************************************************************************)
\* number of distinct lines accepted by the deduplicator in one run
MaxLines == 3
\* number of animation timer ticks in one run
MaxFrames == 1

(***************************************************************************)
(* Program constants.                                                      *)
(***************************************************************************)
DedupMax == 1000
DedupKeep == 500
TrackerCap == 50
TaggedTrackerCap == 4
TrackerStep == 10
RageWrap == 100
timeline_max_slots == 5
max_errors == 5
BackoffCap == 10

None == "<None>"

(***************************************************************************)
(* Log lines.                                                              *)
(*   kind   the template the text instantiates (see the table below)       *)
(*   actor  the name in front of the colon, None when the text has none    *)
(*   spell  the spell of a cast line                                       *)
(*   n      the number printed in the line                                 *)
(*   pad    the text carries leading or trailing white space               *)
(*   ts     the time stamp in front of the text                            *)
(*                                                                         *)
(*   Cast            [Information (combat)] A: lance le sort S             *)
(*   CombatEnd       Combat termine, cliquez ici pour rouvrir ...          *)
(*   KO              [Information (combat)] A est KO !                     *)
(*   SacMarker       [Information (combat)] Sac a patate: Quand tu auras   *)
(*                   fini de me frapper ...                                *)
(*   RageGain        [Information (combat)] A: rage (+N Niv.)              *)
(*   TurnPass        [Information (combat)] N secondes reportees pour le   *)
(*                   tour suivant                                          *)
(*   TrackerGain     [Information (combat)] A: tracker (+N Niv.)           *)
(*   TrackerGainCompulsion   ... A: tracker (+N Niv.) (Compulsion)         *)
(*   TrackerGainRage         ... A: tracker (+N Niv.) (rage)               *)
(*   TrackerLoss     ... A: n'est plus sous l'emprise de 'tracker'         *)
(*                   (Iop isole)                                           *)
(*   TrackerLossCompulsion   ... de 'tracker' (Compulsion)                 *)
(*   TrackerDamage   [Information (combat)] A: -N PV (Feu) (tracker)       *)
(*   PrepGain        [Information (combat)] A: Preparation (+N Niv.)       *)
(*   Damage          [Information (combat)] A: -N PV (Feu)                 *)
(*   Other           any other text without the combat prefix              *)
(*   CastMarker      [Information (combat)] A: lance le sort S sur Sac a   *)
(*                   patate (abandonner)                                   *)
(***************************************************************************)
KindSeq ==
  << "Cast", "CombatEnd", "KO", "SacMarker", "RageGain", "TurnPass",
     "TrackerGain", "TrackerGainCompulsion", "TrackerGainRage",
     "TrackerLoss", "TrackerLossCompulsion", "TrackerDamage", "PrepGain",
     "Damage", "Other", "CastMarker" >>

ActorSeq == << None, "Bob", "Alice", "Sac" >>

SpellSeq == << "", "Fulgur", "Flamiche", "Jabs" >>

Line(kind, actor, spell, n) ==
  [kind |-> kind, actor |-> actor, spell |-> spell, n |-> n,
   pad |-> FALSE, ts |-> 0]

\* the value of `line` before the first call of parse_log_line
NoLine == [kind |-> "NoLine", actor |-> None, spell |-> "", n |-> 0,
           pad |-> FALSE, ts |-> 0]

\* the lines the log delivers in Spec
Lines ==
  { Line("Cast", "Bob", "Fulgur", 0), Line("Cast", "Alice", "Fulgur", 0),
    Line("Cast", "Bob", "Flamiche", 0), Line("Cast", None, "Fulgur", 0),
    Line("CombatEnd", None, "", 0),
    [Line("CombatEnd", None, "", 0) EXCEPT !.pad = TRUE],
    Line("KO", "Sac", "", 0), Line("SacMarker", "Sac", "", 0),
    Line("RageGain", "Bob", "", 40), Line("RageGain", "Bob", "", 140),
    Line("RageGain", "Alice", "", 140),
    Line("TurnPass", None, "", 2),
    Line("TrackerGain", "Bob", "", 3), Line("TrackerGain", "Bob", "", 80),
    Line("TrackerGainCompulsion", "Bob", "", 3),
    Line("TrackerGainCompulsion", "Bob", "", 80),
    Line("TrackerGainRage", "Bob", "", 80),
    Line("TrackerLoss", "Bob", "", 0), Line("TrackerLoss", "Alice", "", 0),
    Line("TrackerLossCompulsion", "Bob", "", 0),
    Line("TrackerDamage", "Sac", "", 12),
    Line("PrepGain", "Bob", "", 20), Line("PrepGain", "Bob", "", 140),
    Line("Damage", "Sac", "", 12),
    Line("Other", None, "", 0),
    Line("CastMarker", "Bob", "Fulgur", 0) }

(***************************************************************************)
(* Text tests of parse_log_line, one per substring test or regular         *)
(* expression of the source.                                               *)
(***************************************************************************)
\* str.strip(): the text without surrounding white space
strip(l) == [l EXCEPT !.pad = FALSE]

IndexOf(seq, x) == CHOOSE i \in 1..Len(seq) : seq[i] = x

\* hash() of a stripped text: equal texts have equal hashes, and the texts
\* of the model have pairwise different hashes
hash(l) ==
  (((l.ts * Len(KindSeq) + (IndexOf(KindSeq, l.kind) - 1)) * Len(ActorSeq)
     + (IndexOf(ActorSeq, l.actor) - 1)) * Len(SpellSeq)
     + (IndexOf(SpellSeq, l.spell) - 1)) * 1000 + l.n

\* "lance le sort" in line
HasLanceLeSort(l) == l.kind \in {"Cast", "CastMarker"}

\* "Sac a patate" in line and one of the three surrender phrases in line
HasSacMarker(l) == l.kind \in {"SacMarker", "CastMarker"}

\* the two caster patterns, tried in order; None when neither matches
caster_name(l) == IF HasLanceLeSort(l) THEN l.actor ELSE None

\* "Combat termine" in line
HasCombatTermine(l) == l.kind = "CombatEnd"

\* re.search('est hors-combat') or re.search('est KO !')
HasKO(l) == l.kind = "KO"

\* "[Information (combat)]" in line
HasCombatPrefix(l) ==
  /\ l.kind \notin {"CombatEnd", "Other"}
  /\ ~(l.kind = "Cast" /\ l.actor = None)

\* re.search('rage \(\+(\d+) Niv\.\)')
rage_match(l) == l.kind = "RageGain"

\* re.search('\[Information \(combat\)\] ([^:]+): rage')
player_rage_match(l) == l.kind = "RageGain" /\ l.actor # None

\* the two turn carry-over phrases
HasTurnPass(l) == l.kind = "TurnPass"

\* re.search('tracker \(\+(\d+) Niv\.\)'): the text of a tagged gain line
\* contains the text of an untagged one
tracker_match(l) ==
  l.kind \in {"TrackerGain", "TrackerGainCompulsion", "TrackerGainRage"}

\* "n'est plus sous l'emprise de 'tracker' (Iop isole)" in line
HasTrackerLoss(l) == l.kind = "TrackerLoss"

\* re.search('\] ([^:]+): n\'est plus sous l\'emprise de \'tracker\'')
player_tracker_loss_match(l) ==
  l.kind \in {"TrackerLoss", "TrackerLossCompulsion"} /\ l.actor # None

\* re.search('tracker \(\+(\d+) Niv\.\) \((Compulsion|rage)\)')
tracker_gain_match(l) ==
  l.kind \in {"TrackerGainCompulsion", "TrackerGainRage"}

\* "n'est plus sous l'emprise de 'tracker' (Compulsion)" in line
HasTrackerLossCompulsion(l) == l.kind = "TrackerLossCompulsion"

\* "(tracker)" in line and "PV" in line, and the damage pattern matches
tracker_damage_match(l) == l.kind = "TrackerDamage"

\* re.search('Preparation \(\+(\d+) Niv\.\)')
rage_gain_match(l) == l.kind = "PrepGain"

\* re.search('\[Information \(combat\)\] ([^:]+):\s*-(\d+)\s*PV')
damage_match(l) == l.kind \in {"Damage", "TrackerDamage"}

\* the spells of self.iop_spells among the spells of the model; the cast
\* branch tests the spell against self.ougi_spells, which __init__ does not
\* assign
iop_spells == {"Fulgur", "Jabs"}

Min(a, b) == IF a < b THEN a ELSE b
Max(a, b) == IF a > b THEN a ELSE b

(***************************************************************************)
(* State: the fields of WakfuOugiResourceTracker, the argument and outcome *)
(* of the last call of parse_log_line, the valid spells handed to          *)
(* add_spell_to_timeline so far, and the state of LogMonitorThread.run:    *)
(*   monitoring          the field self.monitoring                         *)
(*   consecutive_errors  the local of that name                            *)
(*   sleep_time          the local of that name, 0 while it is unbound     *)
(*   running             run() has not returned                            *)
(*   poll                what the last pass through the loop of run() met  *)
(*   last_position       the field self.last_position, counted in lines    *)
(* and the log file and what was emitted from it:                          *)
(*   file_exists         the log file is there                             *)
(*   file_lines          the lines of the log file                         *)
(*   batch               the lines of new_lines the for loop of run() has  *)
(*                       still to go through                               *)
(*   emitted             the lines handed to log_updated.emit so far       *)
(*   queue               the emitted lines posted to the thread of the     *)
(*                       window and not yet handed to parse_log_line       *)
(*   handled             the lines parse_log_line was called on by the     *)
(*                       connection of log_updated                         *)
(*   thread              the launcher's LogMonitorThread (src/test.py):    *)
(*                       its fields in_combat and detected_classes         *)
(*   signals             the emissions of the launcher thread's signals,   *)
(*                       in the order of the emit calls                    *)
(*   thread_line         the line of the last call of its process_line     *)
(*   thread_lines        the number of calls of its process_line           *)
(***************************************************************************)
VARIABLES
  rage, tracker, prey,
  current_rage, current_tracker, current_prey,
  pending_rage_loss, rage_loss_caster, rage_loss_spell,
  in_combat, tracked_player_name, is_sac_patate_combat,
  is_ougi_turn, overlay_visible,
  processed_lines, last_spell_caster,
  timeline_entries, animation_frame,
  line, accepted, pushed,
  monitoring, consecutive_errors, sleep_time, running, poll,
  last_position, file_exists, file_lines, emitted, queue, handled, batch,
  thread, signals, thread_line, thread_lines

vars ==
  << rage, tracker, prey, current_rage, current_tracker, current_prey,
     pending_rage_loss, rage_loss_caster, rage_loss_spell, in_combat,
     tracked_player_name,
     is_sac_patate_combat, is_ougi_turn, overlay_visible, processed_lines,
     last_spell_caster, timeline_entries, animation_frame, line, accepted,
     pushed, monitoring, consecutive_errors, sleep_time, running, poll,
     last_position, file_exists, file_lines, emitted, queue, handled,
     batch, thread, signals, thread_line, thread_lines >>

\* the variables of the launcher's LogMonitorThread
lvars == << thread, signals, thread_line, thread_lines >>

\* the variables of LogMonitorThread
mvars == << monitoring, consecutive_errors, sleep_time, running, poll >>

\* the log file, the position in it and the lines emitted
fvars ==
  << last_position, file_exists, file_lines, emitted, queue, handled, batch >>

\* the object as one record, the form in which the handlers take it
self ==
  [rage |-> rage, tracker |-> tracker, prey |-> prey,
   current_rage |-> current_rage, current_tracker |-> current_tracker,
   current_prey |-> current_prey,
   pending_rage_loss |-> pending_rage_loss,
   rage_loss_caster |-> rage_loss_caster,
   rage_loss_spell |-> rage_loss_spell,
   in_combat |-> in_combat, tracked_player_name |-> tracked_player_name,
   is_sac_patate_combat |-> is_sac_patate_combat,
   is_ougi_turn |-> is_ougi_turn, overlay_visible |-> overlay_visible,
   processed_lines |-> processed_lines,
   last_spell_caster |-> last_spell_caster,
   timeline_entries |-> timeline_entries,
   animation_frame |-> animation_frame]

\* __init__ with the flag prey set
InitObject_prey_set ==
  [rage |-> 0, tracker |-> 0, prey |-> TRUE,
   current_rage |-> 0, current_tracker |-> 0, current_prey |-> FALSE,
   pending_rage_loss |-> FALSE, rage_loss_caster |-> None,
   rage_loss_spell |-> None,
   in_combat |-> FALSE, tracked_player_name |-> None,
   is_sac_patate_combat |-> FALSE,
   is_ougi_turn |-> FALSE, overlay_visible |-> FALSE,
   processed_lines |-> {},
   last_spell_caster |-> None,
   timeline_entries |-> << >>,
   animation_frame |-> 0]

\* WakfuOugiResourceTracker.__init__
InitObject ==
  [rage |-> 0, tracker |-> 0, prey |-> FALSE,
   current_rage |-> 0, current_tracker |-> 0, current_prey |-> FALSE,
   pending_rage_loss |-> FALSE, rage_loss_caster |-> None,
   rage_loss_spell |-> None,
   in_combat |-> FALSE, tracked_player_name |-> None,
   is_sac_patate_combat |-> FALSE,
   is_ougi_turn |-> FALSE, overlay_visible |-> FALSE,
   processed_lines |-> {},
   last_spell_caster |-> None,
   timeline_entries |-> << >>,
   animation_frame |-> 0]

\* the attributes __init__ assigns; reading any other attribute of the
\* object raises AttributeError
InitAttributes ==
  { "rage", "tracker", "prey", "current_rage", "current_tracker",
    "current_prey", "pending_rage_loss", "rage_loss_caster",
    "rage_loss_spell", "in_combat", "tracked_player_name",
    "is_sac_patate_combat", "is_ougi_turn", "overlay_visible", "iop_spells",
    "processed_lines", "last_spell_caster", "last_etendard_cast",
    "timeline_max_slots", "timeline_entries", "timeline_icon_labels",
    "timeline_cost_labels", "spell_icon_stem_map" }

HasAttr(name) == name \in InitAttributes

(***************************************************************************)
(* Deduplicator (parse_log_line, first part).                              *)
(***************************************************************************)
\* list(a_set): a set has no insertion order, its elements are enumerated
\* in the order of their hash slots.  The model admits the enumerations by
\* ascending and by descending hash.
SetOrders == {"asc", "desc"}

\* set(list(s)[-k:]) under the enumeration ord
KeepLast(s, k, ord) ==
  IF ord = "asc"
  THEN {h \in s : Cardinality({g \in s : g > h}) < k}
  ELSE {h \in s : Cardinality({g \in s : g < h}) < k}

\* the window left as it is after an insertion
TrimWindow_untrimmed(s, ord) == s

\* the trim of the window after an insertion
TrimWindow(s, ord) ==
  IF Cardinality(s) > DedupMax THEN KeepLast(s, DedupKeep, ord) ELSE s

(***************************************************************************)
(* Combat end (parse_log_line, "Normal combat end" and "if combat_ended"). *)
(***************************************************************************)
\* combat_ended with the incapacitation branch not looking at
\* is_sac_patate_combat
combat_ended_any_ko(s, l) ==
  IF HasCombatTermine(l) THEN "True"
  ELSE IF HasKO(l) THEN "True"
  ELSE "Unbound"

\* combat_ended as it would be with `combat_ended = False` in front of the
\* two branches
combat_ended_initialised(s, l) ==
  IF HasCombatTermine(l) THEN "True"
  ELSE IF HasKO(l) /\ s.is_sac_patate_combat THEN "True"
  ELSE "False"

\* the local combat_ended when `if combat_ended:` reads it: it is assigned
\* only in the two branches that set it to True, and is unbound otherwise
combat_ended(s, l) ==
  IF HasCombatTermine(l) THEN "True"
  ELSE IF HasKO(l) /\ s.is_sac_patate_combat THEN "True"
  ELSE "Unbound"

\* the reset with the stack counter lowered by the expiry step instead of
\* set to 0
CombatEndReset_step(s) ==
  [s EXCEPT !.in_combat = FALSE,
            !.is_sac_patate_combat = FALSE,
            !.is_ougi_turn = FALSE,
            !.overlay_visible = FALSE,
            !.rage = 0,
            !.tracker = @ - TrackerStep,
            !.prey = FALSE,
            !.current_rage = 0,
            !.current_tracker = 0,
            !.current_prey = FALSE,
            !.pending_rage_loss = FALSE,
            !.rage_loss_caster = None,
            !.rage_loss_spell = None,
            !.timeline_entries = << >>]

\* the reset without the assignment to is_sac_patate_combat
CombatEndReset_keeps_sac(s) ==
  [s EXCEPT !.in_combat = FALSE,
            !.is_ougi_turn = FALSE,
            !.overlay_visible = FALSE,
            !.rage = 0,
            !.tracker = 0,
            !.prey = FALSE,
            !.current_rage = 0,
            !.current_tracker = 0,
            !.current_prey = FALSE,
            !.pending_rage_loss = FALSE,
            !.rage_loss_caster = None,
            !.rage_loss_spell = None,
            !.timeline_entries = << >>]

\* the assignments of the `if combat_ended:` block; the read of the
\* unassigned attribute current_turn_spells that follows them raises, after
\* every reset has been made
CombatEndReset(s) ==
  [s EXCEPT !.in_combat = FALSE,
            !.is_sac_patate_combat = FALSE,
            !.is_ougi_turn = FALSE,
            !.overlay_visible = FALSE,
            !.rage = 0,
            !.tracker = 0,
            !.prey = FALSE,
            !.current_rage = 0,
            !.current_tracker = 0,
            !.current_prey = FALSE,
            !.pending_rage_loss = FALSE,
            !.rage_loss_caster = None,
            !.rage_loss_spell = None,
            !.timeline_entries = << >>]

(***************************************************************************)
(* Counter rules (parse_log_line, from "Only process combat lines" on).    *)
(***************************************************************************)
\* "rage (+N Niv.)"
RageGain(s, l) ==
  LET s1 == IF player_rage_match(l)
            THEN [s EXCEPT !.tracked_player_name = l.actor] ELSE s
  IN IF l.n >= RageWrap
     THEN IF s1.prey
          THEN [s1 EXCEPT !.rage = l.n % RageWrap, !.prey = FALSE,
                          !.current_prey = FALSE]
          ELSE [s1 EXCEPT !.rage = l.n % RageWrap]
     ELSE [s1 EXCEPT !.rage = l.n]

\* cancel of the damage confirmation inside the turn-pass rule
CancelPending(s) ==
  IF s.pending_rage_loss
  THEN [s EXCEPT !.pending_rage_loss = FALSE, !.rage_loss_caster = None,
                 !.rage_loss_spell = None]
  ELSE s

\* the turn carry-over line
TurnPass(s) ==
  LET turn_owner == s.last_spell_caster
      s1 == IF /\ turn_owner # None
               /\ s.tracked_player_name # None
               /\ turn_owner = s.tracked_player_name
            THEN CancelPending([s EXCEPT !.is_ougi_turn = FALSE,
                                         !.overlay_visible = FALSE])
            ELSE IF turn_owner # None THEN s
            ELSE IF s.tracked_player_name # None
                 THEN CancelPending([s EXCEPT !.is_ougi_turn = FALSE,
                                              !.overlay_visible = FALSE])
                 ELSE s
      s2 == IF s1.prey
            THEN [s1 EXCEPT !.prey = FALSE, !.current_prey = FALSE] ELSE s1
  IN [s2 EXCEPT !.timeline_entries = << >>]

\* "tracker (+N Niv.)"
TrackerGain(s, l) ==
  [s EXCEPT !.tracker = Min(l.n, TrackerCap),
            !.current_tracker = Min(l.n, TrackerCap)]

\* "n'est plus sous l'emprise de 'tracker' (Iop isole)"
TrackerLoss(s, l) ==
  IF /\ player_tracker_loss_match(l)
     /\ s.tracked_player_name # None
     /\ l.actor = s.tracked_player_name
  THEN [s EXCEPT !.tracker = Max(0, s.tracker - TrackerStep),
                 !.current_tracker = Max(0, s.tracker - TrackerStep)]
  ELSE s

\* "tracker (+N Niv.) (Compulsion)" or "tracker (+N Niv.) (rage)"
TrackerGainTagged(s, l) ==
  [s EXCEPT !.tracker = Min(l.n, TaggedTrackerCap),
            !.current_tracker = Min(l.n, TaggedTrackerCap)]

\* "n'est plus sous l'emprise de 'tracker' (Compulsion)"
TrackerLossTagged(s, l) ==
  IF /\ player_tracker_loss_match(l)
     /\ s.tracked_player_name # None
     /\ l.actor = s.tracked_player_name
  THEN [s EXCEPT !.tracker = 0, !.current_tracker = 0]
  ELSE s

\* damage dealt with the (tracker) tag
TrackerDamage(s) == [s EXCEPT !.tracker = 0, !.current_tracker = 0]

\* "Preparation (+N Niv.)"
PrepGain(s, l) == [s EXCEPT !.rage = l.n, !.current_rage = l.n]

\* a damage line while a confirmation is pending
DamageConfirm(s) ==
  IF s.rage_loss_caster = s.tracked_player_name
  THEN [s EXCEPT !.rage = 0, !.current_rage = 0,
                 !.pending_rage_loss = FALSE, !.rage_loss_caster = None,
                 !.rage_loss_spell = None]
  ELSE s

\* the rules in the order of the source; the first one that matches returns
CounterRules(s, l) ==
  IF ~HasCombatPrefix(l) THEN s
  ELSE IF rage_match(l) THEN RageGain(s, l)
  ELSE IF HasTurnPass(l) THEN TurnPass(s)
  ELSE IF tracker_match(l) THEN TrackerGain(s, l)
  ELSE IF HasTrackerLoss(l) THEN TrackerLoss(s, l)
  ELSE IF tracker_gain_match(l) THEN TrackerGainTagged(s, l)
  ELSE IF HasTrackerLossCompulsion(l) THEN TrackerLossTagged(s, l)
  ELSE IF tracker_damage_match(l) THEN TrackerDamage(s)
  ELSE IF rage_gain_match(l) THEN PrepGain(s, l)
  ELSE IF damage_match(l) /\ s.pending_rage_loss THEN DamageConfirm(s)
  ELSE s

(***************************************************************************)
(* parse_log_line.  An exception raised inside the handler is caught by    *)
(* its `except Exception: pass`: the call ends with the assignments made   *)
(* up to the raise.                                                        *)
(***************************************************************************)
\* the cast branch showing the overlay as soon as the caster is recorded,
\* before anything marks the turn or the combat
CastLine_shows_overlay(s, l) ==
  [s EXCEPT !.last_spell_caster = IF caster_name(l) # None
                                  THEN caster_name(l) ELSE @,
            !.overlay_visible = TRUE]

\* the cast branch: the caster is recorded, then the read of the unassigned
\* attribute ougi_spells raises AttributeError and ends the call
CastLine(s, l) ==
  LET s1 == IF caster_name(l) # None
            THEN [s EXCEPT !.last_spell_caster = caster_name(l)] ELSE s
  IN s1

\* the handler with the marker test ending the call like the other rules
ProcessLine_marker_returns(s, l) ==
  IF HasSacMarker(l) THEN [s EXCEPT !.is_sac_patate_combat = TRUE]
  ELSE IF HasLanceLeSort(l) THEN CastLine(s, l)
  ELSE IF combat_ended(s, l) = "True" THEN CombatEndReset(s)
  ELSE IF combat_ended(s, l) = "Unbound" THEN s
  ELSE CounterRules(s, l)

\* the handler with a turn-pass rule that hides the overlay and cancels the
\* confirmation whoever cast last
ProcessLine_turn_pass_hides(s, l) ==
  LET s1 == IF HasSacMarker(l)
            THEN [s EXCEPT !.is_sac_patate_combat = TRUE] ELSE s
  IN IF HasLanceLeSort(l) THEN CastLine(s1, l)
     ELSE IF HasTurnPass(l)
          THEN CancelPending([s1 EXCEPT !.is_ougi_turn = FALSE,
                                        !.overlay_visible = FALSE])
     ELSE IF combat_ended(s1, l) = "True" THEN CombatEndReset(s1)
     ELSE IF combat_ended(s1, l) = "Unbound" THEN s1
     ELSE CounterRules(s1, l)

\* the handler after the deduplicator let the line through
ProcessLine(s, l) ==
  LET s1 == IF HasSacMarker(l)
            THEN [s EXCEPT !.is_sac_patate_combat = TRUE] ELSE s
  IN IF HasLanceLeSort(l) THEN CastLine(s1, l)
     ELSE IF combat_ended(s1, l) = "True" THEN CombatEndReset(s1)
     ELSE IF combat_ended(s1, l) = "Unbound" THEN s1
     ELSE CounterRules(s1, l)

\* the call on a line the deduplicator let through ends in an exception
\* that `except Exception: pass` swallows: AttributeError at the read of
\* ougi_spells in the cast branch or of current_turn_spells in the reset
\* block, UnboundLocalError at the read of combat_ended
Raises(s, l) ==
  LET s1 == IF HasSacMarker(l)
            THEN [s EXCEPT !.is_sac_patate_combat = TRUE] ELSE s
  IN IF HasLanceLeSort(l) THEN ~HasAttr("ougi_spells")
     ELSE IF combat_ended(s1, l) = "True" THEN ~HasAttr("current_turn_spells")
     ELSE combat_ended(s1, l) = "Unbound"

\* the deduplicator lets the line through
Accepts(s, l) == hash(strip(l)) \notin s.processed_lines

parse_log_line(s, l, ord) ==
  IF ~Accepts(s, l) THEN s
  ELSE ProcessLine(
         [s EXCEPT !.processed_lines =
                     TrimWindow(s.processed_lines \cup {hash(strip(l))}, ord)],
         l)

(***************************************************************************)
(* add_spell_to_timeline.                                                  *)
(***************************************************************************)
\* the keys of spell_icon_stem_map among the spells of the model
spell_icon_stem_map == {"Fulgur", "Jabs"}

\* The method reads the attribute spell_cost_map first; __init__ does not
\* assign it, the read raises AttributeError and the buffer is left as it
\* was.  With the attribute in place a spell without cost or icon is
\* ignored, and a known spell is appended and the buffer cut to its last
\* timeline_max_slots + 1 entries.
add_spell_to_timeline(s, spell_name) ==
  IF ~HasAttr("spell_cost_map") THEN s
  ELSE IF spell_name \notin spell_icon_stem_map THEN s
  ELSE LET tl == Append(s.timeline_entries,
                        [spell |-> spell_name, up |-> 0, down |-> 0])
       IN [s EXCEPT !.timeline_entries =
                      IF Len(tl) > timeline_max_slots
                      THEN SubSeq(tl, Len(tl) - timeline_max_slots, Len(tl))
                      ELSE tl]

(***************************************************************************)
(* update_animations: the 50 ms timer.                                     *)
(***************************************************************************)
\* Number of fade-out steps of 0.2 after which the alpha of an entry that
\* was faded in by up steps of 0.15 (clamped at 1.0) is <= 0.0 in IEEE
\* double arithmetic: 1.0 needs six steps, not five.
FadeTicks == << 1, 1, 2, 3, 3, 4, 5, 6 >>

MaxUp == 7

AnimateTimeline(tl) ==
  IF tl = << >> THEN tl
  ELSE LET n == Len(tl)
           t1 == [tl EXCEPT ![n].up = Min(MaxUp, @ + 1)]
       IN IF n > timeline_max_slots
          THEN IF t1[1].down + 1 >= FadeTicks[t1[1].up + 1]
               THEN Tail(t1)
               ELSE [t1 EXCEPT ![1].down = @ + 1]
          ELSE t1

update_animations(s) ==
  [s EXCEPT !.animation_frame = @ + 1,
            !.current_rage = s.rage,
            !.current_tracker = s.tracker,
            !.current_prey = s.prey,
            !.timeline_entries = AnimateTimeline(@)]

(***************************************************************************)
(* The launcher's log monitor (src/test.py, LogMonitorThread).  Its run()  *)
(* is the loop of the tracker's monitor with process_line called on each   *)
(* non-blank line in place of the emission.  A line is given by the texts  *)
(* process_line looks for in it.                                           *)
(***************************************************************************)
\* prefix:  "[Information (combat)]" in line
\* lance:   "lance le sort" in line
\* termine: the combat-end sentence in line
\* actor, spell: the groups of the pattern of process_line, None when the
\* pattern does not match
ThreadLine(prefix, lance, termine, actor, spell) ==
  [prefix |-> prefix, lance |-> lance, termine |-> termine,
   actor |-> actor, spell |-> spell]

NoThreadLine == ThreadLine(FALSE, FALSE, FALSE, None, None)

\* the spells cast in the lines of the model: one of iop_spells, one of
\* cra_spells and one of neither list
ThreadSpells == {"Fulgur", "Roulade", "Flamiche"}

ThreadLines ==
  { ThreadLine(TRUE, TRUE, FALSE, a, sp) :
      a \in {"Bob", "Alice"}, sp \in ThreadSpells }
  \cup { ThreadLine(TRUE, TRUE, FALSE, None, None),
         ThreadLine(TRUE, TRUE, TRUE, "Bob", "Fulgur"),
         ThreadLine(FALSE, FALSE, TRUE, None, None),
         ThreadLine(TRUE, FALSE, FALSE, None, None),
         ThreadLine(FALSE, TRUE, FALSE, None, None),
         ThreadLine(FALSE, FALSE, FALSE, None, None) }

detect_class(spell_name) ==
  IF spell_name \in {"Fulgur", "Jabs"} THEN "Iop"
  ELSE IF spell_name \in {"Roulade"} THEN "Cra"
  ELSE None

\* one emission of a signal of the thread
Emission(signal, args) == [signal |-> signal, args |-> args]

\* LogMonitorThread.__init__ of the launcher
InitThreadObject ==
  [in_combat |-> FALSE,
   detected_classes |-> [c \in {"Iop", "Cra"} |-> None]]

\* the class detection at the end of process_line
DetectClass(t, l) ==
  IF ~(l.prefix /\ l.lance) \/ l.actor = None
  THEN [thread |-> t, out |-> << >>]
  ELSE LET detected_class == detect_class(l.spell)
       IN IF detected_class # None
             /\ t.detected_classes[detected_class] = None
          THEN [thread |-> [t EXCEPT
                            !.detected_classes[detected_class] = l.actor],
                out |-> << Emission("class_detected",
                                    << detected_class, l.actor >>) >>]
          ELSE [thread |-> t, out |-> << >>]

\* process_line with combat_started emitted on every combat cast line
process_line_every_cast(t, l) ==
  LET start == l.prefix /\ l.lance
      t1 == IF start THEN [t EXCEPT !.in_combat = TRUE] ELSE t
      o1 == IF start THEN << Emission("combat_started", << >>) >>
            ELSE << >>
  IN IF l.termine /\ t1.in_combat
     THEN [thread |-> [t1 EXCEPT !.in_combat = FALSE],
           out |-> Append(o1, Emission("combat_ended", << >>))]
     ELSE [thread |-> DetectClass(t1, l).thread,
           out |-> o1 \o DetectClass(t1, l).out]

\* process_line: the thread after the call and the emissions of the call
process_line(t, l) ==
  LET start == l.prefix /\ l.lance /\ ~t.in_combat
      t1 == IF start THEN [t EXCEPT !.in_combat = TRUE] ELSE t
      o1 == IF start THEN << Emission("combat_started", << >>) >>
            ELSE << >>
  IN IF l.termine /\ t1.in_combat
     THEN [thread |-> [t1 EXCEPT !.in_combat = FALSE],
           out |-> Append(o1, Emission("combat_ended", << >>))]
     ELSE [thread |-> DetectClass(t1, l).thread,
           out |-> o1 \o DetectClass(t1, l).out]

\* the launcher's thread as constructed, no line processed
InitThread ==
  /\ thread = InitThreadObject
  /\ signals = << >>
  /\ thread_line = NoThreadLine
  /\ thread_lines = 0

(***************************************************************************)
(* Actions.                                                                *)
(***************************************************************************)
SetObject(s) ==
  /\ rage' = s.rage
  /\ tracker' = s.tracker
  /\ prey' = s.prey
  /\ current_rage' = s.current_rage
  /\ current_tracker' = s.current_tracker
  /\ current_prey' = s.current_prey
  /\ pending_rage_loss' = s.pending_rage_loss
  /\ rage_loss_caster' = s.rage_loss_caster
  /\ rage_loss_spell' = s.rage_loss_spell
  /\ in_combat' = s.in_combat
  /\ tracked_player_name' = s.tracked_player_name
  /\ is_sac_patate_combat' = s.is_sac_patate_combat
  /\ is_ougi_turn' = s.is_ougi_turn
  /\ overlay_visible' = s.overlay_visible
  /\ processed_lines' = s.processed_lines
  /\ last_spell_caster' = s.last_spell_caster
  /\ timeline_entries' = s.timeline_entries
  /\ animation_frame' = s.animation_frame

\* the object is in state s
ObjectIs(s) ==
  /\ rage = s.rage
  /\ tracker = s.tracker
  /\ prey = s.prey
  /\ current_rage = s.current_rage
  /\ current_tracker = s.current_tracker
  /\ current_prey = s.current_prey
  /\ pending_rage_loss = s.pending_rage_loss
  /\ rage_loss_caster = s.rage_loss_caster
  /\ rage_loss_spell = s.rage_loss_spell
  /\ in_combat = s.in_combat
  /\ tracked_player_name = s.tracked_player_name
  /\ is_sac_patate_combat = s.is_sac_patate_combat
  /\ is_ougi_turn = s.is_ougi_turn
  /\ overlay_visible = s.overlay_visible
  /\ processed_lines = s.processed_lines
  /\ last_spell_caster = s.last_spell_caster
  /\ timeline_entries = s.timeline_entries
  /\ animation_frame = s.animation_frame

\* LogMonitorThread.__init__, and run() up to its loop
InitMonitor ==
  /\ monitoring = TRUE
  /\ consecutive_errors = 0
  /\ sleep_time = 0
  /\ running = TRUE
  /\ poll = "none"

\* no log file yet: initialize_position_to_end leaves last_position = 0
NoFile ==
  /\ file_exists = FALSE
  /\ file_lines = << >>
  /\ last_position = 0
  /\ emitted = << >>
  /\ queue = << >>
  /\ handled = << >>
  /\ batch = << >>

Init ==
  /\ ObjectIs(InitObject)
  /\ line = NoLine
  /\ accepted = FALSE
  /\ pushed = << >>
  /\ InitMonitor
  /\ NoFile
  /\ InitThread

\* the enumerations of the window that matter for the call on line l: the
\* enumeration is only looked at when the window is trimmed
TrimOrders(s, l) ==
  IF Accepts(s, l) /\ Cardinality(s.processed_lines) >= DedupMax
  THEN SetOrders ELSE {"asc"}

\* the log monitor delivers line l: one call of parse_log_line
ParseLogLine(l) ==
  /\ line' = l
  /\ accepted' = Accepts(self, l)
  /\ \E ord \in TrimOrders(self, l) :
       SetObject(parse_log_line(self, l, ord))
  /\ UNCHANGED << pushed, lvars >>

\* the animation timer fires: one call of update_animations
UpdateAnimations ==
  /\ animation_frame < MaxFrames
  /\ SetObject(update_animations(self))
  /\ UNCHANGED << line, accepted, pushed, lvars >>
  /\ UNCHANGED << mvars, fvars >>

\* a line of the log arrives
Deliver ==
  \E l \in Lines :
    /\ Accepts(self, l) => Cardinality(processed_lines) < MaxLines
    /\ ParseLogLine(l)
    /\ UNCHANGED << mvars, fvars >>

Next == Deliver \/ UpdateAnimations

Spec == Init /\ [][Next]_vars

(***************************************************************************)
(* The handler as a function of the object it is called on: the object     *)
(* starts with any values of the ranges its fields are meant to take, and  *)
(* the handlers run on it.                                                 *)
(***************************************************************************)
\* number of distinct lines accepted in one run of SpecHandler
MaxHandlerLines == 1

HandlerObjects ==
  { [InitObject EXCEPT
       !.rage = r, !.current_rage = r,
       !.tracker = t, !.current_tracker = t,
       !.prey = p, !.current_prey = p,
       !.tracked_player_name = who,
       !.last_spell_caster = lsc,
       !.in_combat = vis, !.is_ougi_turn = vis, !.overlay_visible = vis,
       !.is_sac_patate_combat = sac /\ vis,
       !.pending_rage_loss = pend /\ who # None,
       !.rage_loss_caster = IF pend /\ who # None THEN who ELSE None,
       !.rage_loss_spell = IF pend /\ who # None THEN "Fulgur" ELSE None,
       !.timeline_entries =
          IF vis THEN << [spell |-> "Fulgur", up |-> MaxUp, down |-> 0] >>
          ELSE << >>] :
     r \in {0, 77}, t \in {0, 3, 15}, p \in BOOLEAN,
     who \in {None, "Bob"}, lsc \in {None, "Bob", "Alice"},
     vis \in BOOLEAN, pend \in BOOLEAN, sac \in BOOLEAN }

InitHandler ==
  /\ \E s \in HandlerObjects : ObjectIs(s)
  /\ line = NoLine
  /\ accepted = FALSE
  /\ pushed = << >>
  /\ InitMonitor
  /\ NoFile
  /\ InitThread

\* a line of the log arrives
DeliverHandler ==
  \E l \in Lines :
    /\ Accepts(self, l) => Cardinality(processed_lines) < MaxHandlerLines
    /\ ParseLogLine(l)
    /\ UNCHANGED << mvars, fvars >>

NextHandler == DeliverHandler \/ UpdateAnimations

SpecHandler == InitHandler /\ [][NextHandler]_vars

(***************************************************************************)
(* The deduplicator under a long log: pairwise different lines arrive one  *)
(* after the other, and the line delivered last may be delivered again.    *)
(***************************************************************************)
\* number of pairwise different lines of the long log
MaxDedupLines == 1001

\* the i-th line of the long log: a text no rule matches
DedupLine(i) == [Line("Other", None, "", 0) EXCEPT !.ts = i]

\* the lines the long log can deliver next
DedupFeed ==
  IF line = NoLine THEN {DedupLine(0)}
  ELSE {line} \cup (IF line.ts + 1 < MaxDedupLines
                    THEN {DedupLine(line.ts + 1)} ELSE {})

\* the next line of the long log arrives, or the last one arrives again
DeliverDedup ==
  \E l \in DedupFeed : ParseLogLine(l) /\ UNCHANGED << mvars, fvars >>

NextDedup == DeliverDedup

SpecDedup == Init /\ [][NextDedup]_vars

(***************************************************************************)
(* The timeline on its own: add_spell_to_timeline is called with one spell *)
(* after the other on the object as constructed, while the animation timer *)
(* runs.                                                                   *)
(***************************************************************************)
\* number of valid spells pushed in one run of SpecTimeline
MaxPushes == 6

\* one call of add_spell_to_timeline
AddSpellToTimeline ==
  \E spell_name \in {SpellSeq[i] : i \in 2..Len(SpellSeq)} :
    /\ Len(pushed) < MaxPushes
    /\ pushed' = IF spell_name \in spell_icon_stem_map
                 THEN Append(pushed, spell_name) ELSE pushed
    /\ SetObject(add_spell_to_timeline(self, spell_name))
    /\ UNCHANGED << line, accepted, lvars >>
    /\ UNCHANGED << mvars, fvars >>

NextTimeline == AddSpellToTimeline \/ UpdateAnimations

SpecTimeline == Init /\ [][NextTimeline]_vars

(***************************************************************************)
(* LogMonitorThread.run: each action is one pass through the body of       *)
(* `while self.monitoring`, told apart by what the pass meets.  The log    *)
(* file is written by the game: it appears, and lines are appended to it.  *)
(* Whether opening or reading it raises is decided by the file system.     *)
(* Positions in the file are counted in lines.                             *)
(***************************************************************************)
\* number of lines the log file holds at most in one run of SpecMonitor
MaxMonitorLines == 2

\* a line of white space only
Blank == [kind |-> "Blank", actor |-> None, spell |-> "", n |-> 0,
          pad |-> TRUE, ts |-> 0]

\* the lines the game writes to the log file in SpecMonitor
FileLines ==
  { Line("Cast", "Bob", "Fulgur", 0),
    [Line("CombatEnd", None, "", 0) EXCEPT !.pad = TRUE],
    Blank }

\* a line the game wrote before the monitor was constructed; the lines it
\* writes afterwards are those of FileLines, so that what a reader emits
\* shows which part of the file it came from
Earlier == Line("Other", None, "", 0)

\* variant of position_at_end: the position is the start of the file
position_at_start ==
  last_position = 0

\* initialize_position_to_end when nothing raises: the position is the end
\* of the file when there is one, and stays 0 when there is none
position_at_end ==
  last_position = IF file_exists THEN Len(file_lines) ELSE 0

\* LogMonitorThread.__init__ with initialize_position_to_end: the position
\* is the end of the file when there is one, and 0 when there is none or
\* when looking for the end raised
InitFile ==
  /\ file_lines \in {<< >>, << Earlier >>}
  /\ file_exists \in BOOLEAN
  /\ ~file_exists => file_lines = << >>
  /\ last_position \in {0, Len(file_lines)}
  /\ emitted = << >>
  /\ queue = << >>
  /\ handled = << >>
  /\ batch = << >>

InitSource ==
  /\ ObjectIs(InitObject)
  /\ line = NoLine
  /\ accepted = FALSE
  /\ pushed = << >>
  /\ InitMonitor
  /\ InitFile
  /\ InitThread

\* the game creates the log file
FileCreated ==
  /\ ~file_exists
  /\ file_exists' = TRUE
  /\ file_lines' = << >>
  /\ UNCHANGED << last_position, emitted, queue, handled, batch >>
  /\ UNCHANGED mvars
  /\ UNCHANGED << line, accepted, pushed, lvars >>
  /\ SetObject(self)

\* the game appends a line to the log file
FileAppend ==
  /\ file_exists
  /\ Len(file_lines) < MaxMonitorLines
  /\ \E l \in FileLines : file_lines' = Append(file_lines, l)
  /\ UNCHANGED << file_exists, last_position, emitted, queue, handled,
                  batch >>
  /\ UNCHANGED mvars
  /\ UNCHANGED << line, accepted, pushed, lvars >>
  /\ SetObject(self)

\* the log file is removed; self.last_position is left where it was
FileRemoved ==
  /\ file_exists
  /\ file_exists' = FALSE
  /\ file_lines' = << >>
  /\ UNCHANGED << last_position, emitted, queue, handled, batch >>
  /\ UNCHANGED mvars
  /\ UNCHANGED << line, accepted, pushed, lvars >>
  /\ SetObject(self)

\* min(1 * (2 ** consecutive_errors), 10) without the upper limit
BackoffUncapped(n) == 1 * (2 ^ n)

\* min(1 * (2 ** consecutive_errors), 10)
Backoff(n) == Min(1 * (2 ^ n), BackoffCap)

\* the loop is entered: run() is at the test of `while self.monitoring`,
\* no batch of lines is being gone through, and self.monitoring is set
Looping == running /\ monitoring /\ batch = << >>

\* f.seek(self.last_position); new_lines = f.readlines()
new_lines == SubSeq(file_lines, last_position + 1, Len(file_lines))

\* the lines of new_lines that are emitted: each line is stripped, and
\* emitted when something is left of it
ToEmit(read) ==
  LET kept == SelectSeq(read, LAMBDA l : l.kind # "Blank")
  IN [i \in 1..Len(kept) |-> strip(kept[i])]

\* the else branch of the test for the file with the count of failures
\* raised as the except branch raises it
PollAbsent_counted ==
  /\ Looping
  /\ ~file_exists
  /\ consecutive_errors' = consecutive_errors + 1
  /\ poll' = "absent"
  /\ IF consecutive_errors' >= max_errors
     THEN running' = FALSE /\ UNCHANGED sleep_time
     ELSE sleep_time' = Backoff(consecutive_errors') /\ UNCHANGED running
  /\ UNCHANGED monitoring
  /\ UNCHANGED fvars
  /\ UNCHANGED << line, accepted, pushed, lvars >>
  /\ SetObject(self)

\* the file does not exist: sleep(1) and consecutive_errors = 0
PollAbsent ==
  /\ Looping
  /\ ~file_exists
  /\ consecutive_errors' = 0
  /\ poll' = "absent"
  /\ UNCHANGED << monitoring, sleep_time, running >>
  /\ UNCHANGED fvars
  /\ UNCHANGED << line, accepted, pushed, lvars >>
  /\ SetObject(self)

\* the pass that finds new lines with log_updated connected directly:
\* emit calls parse_log_line in the thread of run()
RECURSIVE EmitAll(_, _)
EmitAll(s, read) ==
  IF read = << >> THEN s
  ELSE EmitAll(parse_log_line(s, Head(read), "asc"), Tail(read))

PollLines_direct ==
  /\ Looping
  /\ file_exists
  /\ new_lines # << >>
  /\ last_position' = Len(file_lines)
  /\ emitted' = emitted \o ToEmit(new_lines)
  /\ handled' = handled \o ToEmit(new_lines)
  /\ SetObject(EmitAll(self, ToEmit(new_lines)))
  /\ consecutive_errors' = 0
  /\ poll' = "lines"
  /\ UNCHANGED << monitoring, sleep_time, running >>
  /\ UNCHANGED << file_exists, file_lines, queue, batch >>
  /\ UNCHANGED << line, accepted, pushed, lvars >>

\* the file has grown: new_lines is read and the position moves to the end
\* of the file
PollLines ==
  /\ Looping
  /\ file_exists
  /\ new_lines # << >>
  /\ last_position' = Len(file_lines)
  /\ batch' = new_lines
  /\ poll' = "lines"
  /\ UNCHANGED << monitoring, consecutive_errors, sleep_time, running >>
  /\ UNCHANGED << file_exists, file_lines, emitted, queue, handled >>
  /\ UNCHANGED << line, accepted, pushed, lvars >>
  /\ SetObject(self)

\* one turn of `for line in new_lines`: the line is stripped and, when
\* something is left of it, emitted.  The object that receives log_updated
\* lives in the thread of the window, so emit posts the line to that thread
\* and returns.  After the last line consecutive_errors = 0.  The loop
\* does not look at self.monitoring
EmitLine ==
  /\ running
  /\ batch # << >>
  /\ emitted' = emitted \o ToEmit(<< Head(batch) >>)
  /\ queue' = queue \o ToEmit(<< Head(batch) >>)
  /\ batch' = Tail(batch)
  /\ consecutive_errors' =
       IF Tail(batch) = << >> THEN 0 ELSE consecutive_errors
  /\ UNCHANGED << monitoring, sleep_time, running, poll >>
  /\ UNCHANGED << last_position, file_exists, file_lines, handled >>
  /\ UNCHANGED << line, accepted, pushed, lvars >>
  /\ SetObject(self)

\* the thread of the window takes the line posted first and calls
\* parse_log_line on it
DispatchLine ==
  /\ queue # << >>
  /\ ParseLogLine(Head(queue))
  /\ queue' = Tail(queue)
  /\ handled' = Append(handled, Head(queue))
  /\ UNCHANGED << last_position, file_exists, file_lines, emitted, batch >>
  /\ UNCHANGED mvars

\* the file has not grown: sleep(0.1); consecutive_errors is left as it is
PollEmpty ==
  /\ Looping
  /\ file_exists
  /\ new_lines = << >>
  /\ poll' = "empty"
  /\ UNCHANGED << monitoring, consecutive_errors, sleep_time, running >>
  /\ UNCHANGED fvars
  /\ UNCHANGED << line, accepted, pushed, lvars >>
  /\ SetObject(self)

\* the except branch with `>` in place of `>=` in the test against
\* max_errors
PollFails_late_stop ==
  /\ Looping
  /\ file_exists
  /\ consecutive_errors' = consecutive_errors + 1
  /\ poll' = "error"
  /\ IF consecutive_errors' > max_errors
     THEN running' = FALSE /\ UNCHANGED sleep_time
     ELSE sleep_time' = Backoff(consecutive_errors') /\ UNCHANGED running
  /\ UNCHANGED monitoring
  /\ UNCHANGED fvars
  /\ UNCHANGED << line, accepted, pushed, lvars >>
  /\ SetObject(self)

\* opening or reading the file raises: the except branch
PollFails ==
  /\ Looping
  /\ file_exists
  /\ consecutive_errors' = consecutive_errors + 1
  /\ poll' = "error"
  /\ IF consecutive_errors' >= max_errors
     THEN running' = FALSE /\ UNCHANGED sleep_time
     ELSE sleep_time' = Backoff(consecutive_errors') /\ UNCHANGED running
  /\ UNCHANGED monitoring
  /\ UNCHANGED fvars
  /\ UNCHANGED << line, accepted, pushed, lvars >>
  /\ SetObject(self)

\* stop_monitoring, called by the owner
StopMonitoring ==
  /\ monitoring
  /\ monitoring' = FALSE
  /\ UNCHANGED << consecutive_errors, sleep_time, running, poll >>
  /\ UNCHANGED fvars
  /\ UNCHANGED << line, accepted, pushed, lvars >>
  /\ SetObject(self)

\* run() returning as soon as self.monitoring is cleared, the lines of the
\* batch not yet gone through being dropped
RunReturns_drops_batch ==
  /\ running /\ ~monitoring
  /\ running' = FALSE
  /\ batch' = << >>
  /\ UNCHANGED << monitoring, consecutive_errors, sleep_time, poll >>
  /\ UNCHANGED << last_position, file_exists, file_lines, emitted, queue,
                  handled >>
  /\ UNCHANGED << line, accepted, pushed, lvars >>
  /\ SetObject(self)

\* the loop test finds self.monitoring cleared and run() returns
RunReturns ==
  /\ running /\ ~monitoring /\ batch = << >>
  /\ running' = FALSE
  /\ UNCHANGED << monitoring, consecutive_errors, sleep_time, poll >>
  /\ UNCHANGED fvars
  /\ UNCHANGED << line, accepted, pushed, lvars >>
  /\ SetObject(self)

\* the steps of the thread of run() and of the game that writes the file
NextSource ==
  \/ FileCreated
  \/ FileAppend
  \/ FileRemoved
  \/ PollAbsent
  \/ PollLines
  \/ EmitLine
  \/ PollEmpty
  \/ PollFails
  \/ StopMonitoring
  \/ RunReturns

\* with the steps of the thread of the window
NextMonitor ==
  \/ NextSource
  \/ DispatchLine
  \/ UpdateAnimations

SpecMonitor == InitSource /\ [][NextMonitor]_vars

\* run() is the body of a thread of its own, which goes on running: a
\* batch that was read is gone through, a cleared self.monitoring is seen at
\* the next test of the loop, and while the file holds lines past the
\* position a pass that reads them is taken sooner or later unless the
\* passes that raise end the loop first
SpecMonitorLive ==
  /\ InitSource
  /\ [][NextSource]_vars
  /\ WF_vars(PollLines)
  /\ WF_vars(EmitLine)
  /\ WF_vars(RunReturns)

\* the reader over a file that only grows and whose reads never raise:
\* looking for the end at construction succeeded, the file is never
\* removed and no pass of the loop fails
InitGrowing ==
  /\ InitSource
  /\ position_at_end

NextGrowing ==
  \/ FileCreated
  \/ FileAppend
  \/ PollAbsent
  \/ PollLines
  \/ EmitLine
  \/ PollEmpty
  \/ StopMonitoring
  \/ RunReturns

SpecGrowing == InitGrowing /\ [][NextGrowing]_vars

(***************************************************************************)
(* SpecLauncher: the launcher's thread calls process_line on the lines of  *)
(* the log, one call per line.                                             *)
(***************************************************************************)
\* number of lines the launcher's thread processes in one run
MaxLauncherLines == 3

\* one call of process_line
ThreadProcessLine ==
  \E l \in ThreadLines :
    /\ thread_lines < MaxLauncherLines
    /\ thread' = process_line(thread, l).thread
    /\ signals' = signals \o process_line(thread, l).out
    /\ thread_line' = l
    /\ thread_lines' = thread_lines + 1
    /\ SetObject(self)
    /\ UNCHANGED << line, accepted, pushed >>
    /\ UNCHANGED << mvars, fvars >>

NextLauncher == ThreadProcessLine

SpecLauncher == Init /\ [][NextLauncher]_vars

(***************************************************************************)
(* Properties.                                                             *)
(***************************************************************************)
\* this step is a call of parse_log_line whose line the deduplicator let
\* through
Processed == accepted' /\ processed_lines' # processed_lines

\* the value the wrap rule gives for a reported total n
Wrapped(n) == IF n >= RageWrap THEN n % RageWrap ELSE n

\* C1: processing a line "rage (+N Niv.)" sets rage to N mod 100 when
\* N >= 100 and to N when N < 100, and clears prey when N >= 100 and prey
\* was set.
C1_RageGainWraps ==
  [][(Processed /\ rage_match(line'))
       => /\ rage' = Wrapped(line'.n)
          /\ (line'.n >= RageWrap /\ prey) => ~prey']_vars

C3_TrackerInRange == tracker >= 0 /\ tracker <= TrackerCap

\* a stack gain above the cap has been processed
C3_Witness ==
  /\ accepted
  /\ tracker_match(line)
  /\ line.n > TrackerCap
  /\ tracker \in 0..TrackerCap

\* C4: processing an untagged line "tracker (+N Niv.)" sets tracker to
\* min(N, 50).
C4_UntaggedGainCaps ==
  [][(Processed /\ line'.kind = "TrackerGain")
       => tracker' = Min(line'.n, TrackerCap)]_vars

\* C5: processing a tagged line "tracker (+N Niv.) (Compulsion)" or
\* "tracker (+N Niv.) (rage)" sets tracker to min(N, 4).
C5_TaggedGainCaps ==
  [][(Processed /\ tracker_gain_match(line'))
       => tracker' = Min(line'.n, TaggedTrackerCap)]_vars

ActorScoped(l) ==
  /\ l.actor # None
  /\ l.kind \in {"Cast", "RageGain", "TrackerGain", "TrackerGainCompulsion",
                 "TrackerGainRage", "TrackerLoss", "TrackerLossCompulsion",
                 "PrepGain"}

C8_SecondDeliveryRejected ==
  [][(/\ line # NoLine
      /\ strip(line') = strip(line)
      /\ ParseLogLine(line'))
       => /\ ~accepted'
          /\ ObjectIs(self)']_vars

\* C11: a turn-pass line processed while the last caster is set and is not
\* the tracked actor leaves is_ougi_turn, overlay_visible, pending_rage_loss,
\* rage_loss_caster and rage_loss_spell as they were.
C11_OtherActorTurnPass ==
  [][(/\ Processed
      /\ HasTurnPass(line')
      /\ last_spell_caster # None
      /\ last_spell_caster # tracked_player_name)
       => UNCHANGED << is_ougi_turn, overlay_visible, pending_rage_loss,
                       rage_loss_caster, rage_loss_spell >>]_vars

\* a turn-pass line has been processed in the tracked actor's turn, with a
\* confirmation pending, after another actor cast last
C11_Witness ==
  /\ accepted
  /\ HasTurnPass(line)
  /\ tracked_player_name # None
  /\ last_spell_caster \notin {None, tracked_player_name}
  /\ is_ougi_turn /\ overlay_visible
  /\ pending_rage_loss
  /\ rage_loss_caster = tracked_player_name
  /\ rage_loss_spell # None

\* the spells of the buffer, oldest first
TimelineSpells == [i \in 1..Len(timeline_entries) |-> timeline_entries[i].spell]

\* the last k elements of a sequence
LastOf(seq, k) == SubSeq(seq, Max(1, Len(seq) - k + 1), Len(seq))

\* C12: the timeline never holds more than timeline_max_slots = 5 entries,
\* and it holds the valid spells pushed so far, the 5 most recent of them
\* once more than 5 were pushed, in the order of the pushes with the newest
\* last.
C12_TimelineLastFive ==
  /\ Len(timeline_entries) <= timeline_max_slots
  /\ TimelineSpells = LastOf(pushed, timeline_max_slots)

\* this step processes a line that ends the combat: the end phrase, or an
\* incapacitation line during a special encounter
CombatEndStep ==
  /\ Processed
  /\ \/ HasCombatTermine(line')
     \/ HasKO(line') /\ is_sac_patate_combat

\* C13: after a combat-end line has been processed rage = 0, tracker = 0,
\* prey is false, the timeline is empty, no confirmation is pending, and
\* in_combat, is_sac_patate_combat, is_ougi_turn and overlay_visible are
\* false.
C13_CombatEndResets ==
  [][CombatEndStep
       => /\ rage' = 0 /\ tracker' = 0 /\ ~prey'
          /\ timeline_entries' = << >>
          /\ ~pending_rage_loss'
          /\ rage_loss_caster' = None /\ rage_loss_spell' = None
          /\ ~in_combat' /\ ~is_sac_patate_combat'
          /\ ~is_ougi_turn' /\ ~overlay_visible']_vars

\* the special-encounter marker and then an incapacitation line have been
\* processed, and the incapacitation line has ended the special encounter
C13_Witness ==
  /\ accepted
  /\ HasKO(line)
  /\ \E m \in Lines :
       /\ HasSacMarker(m)
       /\ processed_lines = {hash(strip(m)), hash(strip(line))}
  /\ ~is_sac_patate_combat /\ ~in_combat
  /\ rage = 0 /\ tracker = 0 /\ timeline_entries = << >>

CombatOver ==
  /\ ~in_combat /\ ~is_sac_patate_combat
  /\ ~is_ougi_turn /\ ~overlay_visible
  /\ rage = 0 /\ tracker = 0 /\ ~prey
  /\ ~pending_rage_loss
  /\ timeline_entries = << >>

\* C15: the end phrase ends the combat whatever the state; an
\* incapacitation line ends it when is_sac_patate_combat is set, and makes no
\* reset when it is not.
C15_EndConditions ==
  [][Processed
       => /\ HasCombatTermine(line') => CombatOver'
          /\ (HasKO(line') /\ is_sac_patate_combat) => CombatOver'
          /\ (HasKO(line') /\ ~is_sac_patate_combat)
               => UNCHANGED << in_combat, is_sac_patate_combat, is_ougi_turn,
                               overlay_visible, rage, tracker, prey,
                               pending_rage_loss, rage_loss_caster,
                               rage_loss_spell, timeline_entries >>]_vars

\* an incapacitation line has been processed outside a special encounter,
\* and the combat goes on
C15_Witness ==
  /\ accepted
  /\ HasKO(line)
  /\ ~is_sac_patate_combat
  /\ in_combat /\ overlay_visible
  /\ rage > 0 /\ tracker > 0
  /\ timeline_entries # << >>

C17_FailureChangesNothing ==
  [][(Processed /\ Raises(self, line'))
       => UNCHANGED << tracked_player_name, last_spell_caster, in_combat,
                       is_sac_patate_combat, is_ougi_turn, overlay_visible,
                       rage, tracker, prey, pending_rage_loss,
                       rage_loss_caster, rage_loss_spell,
                       timeline_entries >>]_vars

\* C18: after every call of parse_log_line the window processed_lines holds
\* at most 1000 fingerprints.
C18_WindowBounded == Cardinality(processed_lines) <= DedupMax

\* the line that overflowed the full window has been processed and the
\* window has been trimmed
C18_Witness ==
  /\ line # NoLine
  /\ line.ts = DedupMax
  /\ Cardinality(processed_lines) = DedupKeep

\* C19: the insertion that takes the window above 1000 fingerprints leaves
\* in it exactly the fingerprints of the 500 lines accepted last, so that
\* each of these lines is still rejected.
C19_TrimKeepsNewest ==
  [][(Processed /\ Cardinality(processed_lines) >= DedupMax)
       => processed_lines'
            = {hash(strip(DedupLine(i))) :
                 i \in (line'.ts - DedupKeep + 1)..line'.ts}]_vars

\* this step is a failed read after which run() sleeps and tries again
RetryStep ==
  /\ consecutive_errors' = consecutive_errors + 1
  /\ running'

FailedRead == consecutive_errors' = consecutive_errors + 1

ReaderStep ==
  << consecutive_errors, sleep_time, running, poll, last_position, emitted,
     batch >>'
    # << consecutive_errors, sleep_time, running, poll, last_position,
         emitted, batch >>

\* the log file holds lines past self.last_position
Unread == file_exists /\ last_position < Len(file_lines)

\* C22: a log file that does not exist is tolerated: a pass of the loop
\* that finds no file leaves the count of failures at 0 and does not end
\* the loop, run() ends while the file is absent only after stop_monitoring,
\* a pass that moves the position takes the lines past it, each of them
\* that is not blank is emitted in its turn, and lines past the position
\* of a file that exists are read unless the loop ends or the file is
\* removed first.
C22_AbsentFileTolerated ==
  /\ [][/\ (ReaderStep /\ Looping /\ ~file_exists)
             => /\ consecutive_errors' = 0
                /\ running'
                /\ poll' = "absent"
        /\ (~file_exists /\ running /\ ~running') => ~monitoring
        /\ last_position' # last_position
             => /\ batch' = new_lines
                /\ last_position' = Len(file_lines)
        /\ (batch # << >> /\ batch' # batch)
             => /\ batch' = Tail(batch)
                /\ emitted' = emitted \o ToEmit(<< Head(batch) >>)]_vars
  /\ (running /\ monitoring /\ Unread)
       ~> \/ ~(running /\ monitoring)
          \/ ~file_exists
          \/ last_position = Len(file_lines)

\* a pass of the loop found no file after reads of the file had raised and
\* after lines of it had been emitted, and the loop goes on
C22_Witness ==
  /\ Looping
  /\ ~file_exists
  /\ poll = "absent"
  /\ sleep_time > 0
  /\ consecutive_errors = 0
  /\ emitted # << >>

\* C23: the lines emitted by run() are handed to parse_log_line in the
\* order of emission, each once and one per step; a step of the thread of
\* run() changes no field of the object and calls parse_log_line on no
\* line; every step that changes a field of the object is either one call
\* of parse_log_line on the line posted first or one call of
\* update_animations, never both.
C23_SingleOrderedConsumer ==
  /\ [](emitted = handled \o queue)
  /\ [][/\ ReaderStep => self' = self /\ handled' = handled
        /\ handled' # handled
             => /\ queue # << >>
                /\ handled' = Append(handled, Head(queue))
                /\ queue' = Tail(queue)
                /\ self' = parse_log_line(self, Head(queue), "asc")
        /\ self' # self
             => \/ handled' # handled
                \/ /\ self' = update_animations(self)
                   /\ queue' = queue]_vars

\* two different lines were emitted, parse_log_line has been called on the
\* first and update_animations has run while run() is still in its loop,
\* and the second line still waits
C23_Witness ==
  /\ Looping
  /\ Len(handled) = 1
  /\ Len(queue) = 1
  /\ handled[1] # queue[1]
  /\ animation_frame > 0
  /\ last_spell_caster # None

\* the line is a cast with a caster and a spell of the signature set
SignatureCast(l) ==
  /\ HasLanceLeSort(l)
  /\ caster_name(l) # None
  /\ l.spell \in iop_spells

\* the line is a cast by the tracked actor, the actor a signature cast
\* binds when none is tracked included
TrackedCast(l) ==
  /\ HasLanceLeSort(l)
  /\ caster_name(l) # None
  /\ \/ tracked_player_name = caster_name(l)
     \/ tracked_player_name = None /\ l.spell \in iop_spells

\* C24: a cast of a signature spell processed while no actor is tracked
\* binds the tracked actor to its caster; tracked_player_name changes in no
\* other way except to None at a combat end, so a counter line of another
\* actor does not rebind it.
C24_BoundBySignatureCast ==
  [][Processed
       => /\ (SignatureCast(line') /\ tracked_player_name = None)
               => tracked_player_name' = caster_name(line')
          /\ tracked_player_name' # tracked_player_name
               => \/ SignatureCast(line') /\ tracked_player_name = None
                  \/ CombatEndStep /\ tracked_player_name' = None]_vars

\* C25: a cast by the tracked actor processed while in_combat is false sets
\* in_combat, sets tracker to 0 and prey to false and leaves rage; a cast
\* processed while in_combat is true changes none of tracker, prey, rage.
C25_CombatStartReset ==
  [][(Processed /\ HasLanceLeSort(line'))
       => /\ (TrackedCast(line') /\ ~in_combat)
               => /\ in_combat'
                  /\ tracker' = 0 /\ ~prey'
                  /\ rage' = rage
          /\ in_combat
               => tracker' = tracker /\ prey' = prey /\ rage' = rage]_vars

\* C26: a cast by the tracked actor makes in_combat true, a cast by another
\* caster or without a caster leaves in_combat as it was, nothing but a
\* cast makes it true, and in_combat implies that an actor is tracked.
C26_CombatOnlyByTrackedCast ==
  /\ [](in_combat => tracked_player_name # None)
  /\ [][Processed
          => /\ TrackedCast(line') => in_combat'
             /\ (HasLanceLeSort(line') /\ ~TrackedCast(line'))
                  => in_combat' = in_combat
             /\ (in_combat' /\ ~in_combat) => TrackedCast(line')]_vars

\* C27: is_ougi_turn and overlay_visible become true when a cast of a
\* signature spell by the tracked actor is processed, and by no other line.
C27_VisibleBySignatureCast ==
  [][Processed
       => /\ (SignatureCast(line') /\ TrackedCast(line'))
               => is_ougi_turn' /\ overlay_visible'
          /\ \/ is_ougi_turn' /\ ~is_ougi_turn
             \/ overlay_visible' /\ ~overlay_visible
               => SignatureCast(line') /\ TrackedCast(line')]_vars

GenericDamage(l) == damage_match(l) /\ ~tracker_damage_match(l)

C30_PreparationArms ==
  [][(/\ Processed
      /\ rage_gain_match(line')
      /\ last_spell_caster # None
      /\ line'.actor = last_spell_caster)
       => /\ pending_rage_loss'
          /\ rage_loss_caster' = last_spell_caster]_vars

\* C31: a cast of a spell of the mapping by the tracked actor appends one
\* entry for that spell to the timeline; a cast by another caster, or of a
\* spell that is not in the mapping, leaves the timeline as it was.
C31_TimelineOnlyTrackedMapped ==
  [][(Processed /\ HasLanceLeSort(line'))
       => IF TrackedCast(line') /\ line'.spell \in spell_icon_stem_map
          THEN /\ timeline_entries' # << >>
               /\ timeline_entries'[Len(timeline_entries')].spell = line'.spell
               /\ timeline_entries' # timeline_entries
          ELSE timeline_entries' = timeline_entries]_vars

\* what LogMonitorThread shows to its owner: its fields monitoring and
\* last_position and the emissions of log_updated, its only signal
OwnerView == << monitoring, last_position, emitted >>

\* C32: the failed read that ends run() surfaces the failure to the owner:
\* it emits a signal or changes a field of the thread.
C32_TerminalErrorSurfaced ==
  [][(FailedRead /\ running /\ ~running') => OwnerView' # OwnerView]_vars

\* C33: a pass of the loop that reads the file without raising, whether or
\* not it finds new lines, leaves the count of failures at 0, so run() ends
\* by failure only after five failed reads with no other pass between them.
C33_SuccessResetsCount ==
  [][(ReaderStep /\ poll' \in {"lines", "empty"})
       => consecutive_errors' = 0]_vars

\* C34: once self.monitoring is cleared run() returns, and it returns only
\* when the batch it had read is gone through: from the clearing on every
\* line of the batch is still taken in its turn and emitted when it is not
\* blank, none is dropped.
C34_ShutdownDrains ==
  /\ [][/\ (running /\ ~running' /\ ~monitoring) => batch = << >>
        /\ (~monitoring /\ batch # << >> /\ batch' # batch)
             => /\ running'
                /\ batch' = Tail(batch)
                /\ emitted' = emitted \o ToEmit(<< Head(batch) >>)]_vars
  /\ ~monitoring ~> ~running
  /\ (~monitoring /\ batch # << >>) ~> (batch = << >> /\ running)

\* stop_monitoring was called while run() had emitted the first of two
\* lines it had read and still has the second to go through
C34_Witness ==
  /\ running
  /\ ~monitoring
  /\ Len(batch) = 1
  /\ last_position = Len(file_lines)
  /\ emitted # << >>
  /\ emitted[Len(emitted)] # strip(batch[1])
  /\ batch[1].kind # "Blank"

\* the file was made anew shorter than self.last_position and holds lines
\* written since, all of them before the position
Unseen ==
  /\ file_exists
  /\ \E i \in 1..Len(file_lines) : file_lines[i].kind # "Blank"
  /\ Len(file_lines) < last_position

\* C35: lines appended to a file that was made anew shorter than the
\* position are read and emitted while run() goes on: from a state with
\* such lines a pass that reads lines follows, unless run() ends or the
\* file is removed again.
C35_RecoversFromReset ==
  (running /\ monitoring /\ Unseen)
    ~> \/ ~(running /\ monitoring)
       \/ ~file_exists
       \/ batch # << >>


\* the lines written to the file after the monitor was constructed
Appended == SelectSeq(file_lines, LAMBDA l : l # Earlier)

BeforeRules ==
  [self EXCEPT !.processed_lines = processed_lines',
               !.is_sac_patate_combat = @ \/ HasSacMarker(line')]

\* C37: a combat line that is neither a cast line nor a line that ends the
\* combat gets past the test of combat_ended without the call being cut
\* short, and the first counter rule that matches it is applied.
C37_CounterRulesApplied ==
  [][(/\ Processed
      /\ HasCombatPrefix(line')
      /\ ~HasLanceLeSort(line')
      /\ combat_ended(BeforeRules, line') # "True")
       => self' = CounterRules(BeforeRules, line')]_vars


\* C38: in every reachable state a visible overlay implies a combat in
\* progress and a tracked actor, and is_ougi_turn equals overlay_visible.
C38_VisibleImpliesOwnedCombat ==
  /\ overlay_visible => (in_combat /\ tracked_player_name # None)
  /\ is_ougi_turn = overlay_visible

\* a cast of a signature spell has been processed, its caster recorded
C38_Witness ==
  /\ accepted
  /\ HasLanceLeSort(line)
  /\ line.spell \in iop_spells
  /\ caster_name(line) # None
  /\ last_spell_caster = caster_name(line)
  /\ is_ougi_turn = overlay_visible


\* C39: the flag prey is false in every reachable state: no line of the log
\* and no tick of the timer sets it, so the branches that clear it on a
\* wrap of rage and on a turn pass find it false.
C39_PreyNeverSet == ~prey

\* a turn-pass line has been processed and the timer has fired
C39_Witness ==
  /\ accepted
  /\ HasTurnPass(line)
  /\ animation_frame > 0
  /\ ~prey
  /\ ~current_prey


\* the emissions of combat_started and combat_ended among a sequence
CombatSignals(seq) ==
  SelectSeq(seq, LAMBDA e : e.signal \in {"combat_started", "combat_ended"})

\* the names of the combat signals the last call of process_line emitted
NewCombatSignals ==
  LET all == CombatSignals(signals')
      old == CombatSignals(signals)
  IN {all[i].signal : i \in (Len(old) + 1)..Len(all)}

\* the line is a combat cast line for process_line
ThreadCast(l) == l.prefix /\ l.lance

\* in_combat when process_line comes to the test of the combat-end
\* sentence: set already when the call began, or by the line's own cast
InCombatAtEndTest == thread.in_combat \/ ThreadCast(thread_line')

\* C40: in the launcher's monitor combat_started and combat_ended
\* alternate over any sequence of lines, beginning with combat_started;
\* combat_started is emitted only on a combat cast line met while
\* in_combat is false, combat_ended only on a line with the combat-end
\* sentence met while in_combat is true, and a cast line during a combat
\* or an end line outside one emits neither.
C40_SignalsAlternate ==
  /\ [](\A i \in 1..Len(CombatSignals(signals)) :
          CombatSignals(signals)[i].signal =
            IF i % 2 = 1 THEN "combat_started" ELSE "combat_ended")
  /\ [][thread_lines' # thread_lines
          => /\ "combat_started" \in NewCombatSignals
                  <=> (ThreadCast(thread_line') /\ ~thread.in_combat)
             /\ "combat_ended" \in NewCombatSignals
                  <=> (thread_line'.termine /\ InCombatAtEndTest)
             /\ Len(CombatSignals(signals'))
                  <= Len(CombatSignals(signals)) + 2]_vars

\* a combat was started and ended, and a second end line emitted nothing
\* more
C40_Witness ==
  /\ thread_lines = 3
  /\ thread_line.termine
  /\ ~thread_line.lance
  /\ ~thread.in_combat
  /\ [i \in 1..Len(CombatSignals(signals)) |-> CombatSignals(signals)[i].signal]
       = << "combat_started", "combat_ended" >>

====
